---- MODULE Spec2Model ----
(***************************************************************************)
(* A model of jobs/buildhub/inventory_to_records.py: the folder grouper,   *)
(* the deduplicator, the candidates scan, the three metadata strategies,   *)
(* the HTTP retry wrapper and the batch orchestrator of csv_to_records.    *)
(*                                                                         *)
(* Six specifications share the variables:                                 *)
(*   Spec        the pipeline of csv_to_records on a stream of entries     *)
(*   SpecScan    scan_candidates alone, on a richer archive                *)
(*   SpecRelease the pipeline on release records and that richer archive   *)
(*   SpecGroup   inventory_by_folder on a bounded input sequence           *)
(*   SpecDedup   deduplicate_entries on a bounded group                    *)
(*   SpecFetch   one fetch_json call against a scripted server             *)
(***************************************************************************)
EXTENDS Integers, Sequences, FiniteSets, TLC

VARIABLES
    \* ---- inventory_by_folder (SpecGroup)
    gInput, gPos, previous, result, groups, gDone,
    \* ---- deduplicate_entries (SpecDedup)
    dIn, dOut, dDone,
    \* ---- fetch_json (SpecFetch)
    fScript, fTry, fGets, fResult,
    \* ---- csv_to_records (Spec)
    pc, nRead, cur, batch, final, tasks, skip_incomplete,
    nightlyCache, rcCache, releaseCache, indexed, folderOf, cacheFile,
    scan,
    \* what the latest process_batch yielded to the sink
    output,
    \* history of the run, read by the properties only
    hist

groupVars == <<gInput, gPos, previous, result, groups, gDone>>
dedupVars == <<dIn, dOut, dDone>>
fetchVars == <<fScript, fTry, fGets, fResult>>
pipeVars == <<pc, nRead, cur, batch, final, tasks, skip_incomplete,
              nightlyCache, rcCache, releaseCache, indexed, folderOf, cacheFile,
              scan, output, hist>>
vars == <<groupVars, dedupVars, fetchVars, pipeVars>>

(***************************************************************************)
(* Generic helpers                                                         *)
(***************************************************************************)
Range(s) == {s[i] : i \in 1..Len(s)}

SeqsUpTo(S, n) == UNION {[1..k -> S] : k \in 0..n}

NoRepeat(s) == \A i, j \in 1..Len(s) : i # j => s[i] # s[j]

RECURSIVE Flatten(_)
Flatten(ss) == IF ss = <<>> THEN <<>> ELSE Head(ss) \o Flatten(Tail(ss))

(***************************************************************************)
(* deduplicate_entries                                                     *)
(***************************************************************************)
\* A key is a sequence of tokens; a token stands for the characters it spells.
MaxGroup == 3

KExe == <<"fx", ".exe">>
KZip == <<"fx", ".zip">>
KInstExe == <<"fx", ".installer", ".exe">>
KTgz == <<"fx", ".tar.gz">>
KInstTgz == <<"fx", ".installer", ".tar.gz">>
KUpZip == <<"FX", ".zip">>
KSetup == <<"fx", "+Setup+", "1", ".exe">>
KDash == <<"fx", "-", "1", ".zip">>
KDmg == <<"fx", ".dmg">>
KTb == <<"tb", ".zip">>

DedupKeys == {KExe, KZip, KInstExe, KTgz, KInstTgz, KUpZip, KSetup, KDash, KDmg, KTb}

\* len(e['Key']): the number of characters of the key
TokLen(t) == Len(t)

RECURSIVE KeyLen(_)
KeyLen(k) == IF k = <<>> THEN 0 ELSE TokLen(Head(k)) + KeyLen(Tail(k))

\* str.lower()
LowerTok(t) ==
    CASE t = "FX" -> "fx"
      [] t = "+Setup+" -> "+setup+"
      [] OTHER -> t

Lower(k) == [i \in 1..Len(k) |-> LowerTok(k[i])]

\* str.replace(old, new) for a one-token old
RECURSIVE ReplaceTok(_, _, _)
ReplaceTok(k, old, new) ==
    IF k = <<>> THEN <<>>
    ELSE (IF Head(k) = old THEN new ELSE <<Head(k)>>) \o ReplaceTok(Tail(k), old, new)

\* str.replace(a + b, '') for a two-token old
RECURSIVE RemovePair(_, _, _)
RemovePair(k, a, b) ==
    IF Len(k) < 2 THEN k
    ELSE IF k[1] = a /\ k[2] = b THEN RemovePair(Tail(Tail(k)), a, b)
    ELSE <<Head(k)>> \o RemovePair(Tail(k), a, b)

\* the dict key of the comprehension
Normalize(k) ==
    LET k0 == Lower(k)
        k1 == ReplaceTok(k0, "+setup+", <<"-">>)
        k2 == RemovePair(k1, ".installer", ".exe")
        k3 == ReplaceTok(k2, ".exe", <<>>)
        k4 == RemovePair(k3, ".installer", ".tar.gz")
        k5 == ReplaceTok(k4, ".tar.gz", <<>>)
    IN  ReplaceTok(k5, ".zip", <<>>)

\* sorted(entries, key=len, reverse=True): stable, longest first
RECURSIVE InsertLonger(_, _)
InsertLonger(sorted, e) ==
    IF sorted = <<>> THEN <<e>>
    ELSE IF KeyLen(Head(sorted)) >= KeyLen(e)
         THEN <<Head(sorted)>> \o InsertLonger(Tail(sorted), e)
         ELSE <<e>> \o sorted

RECURSIVE LongerFirst(_)
LongerFirst(es) ==
    IF es = <<>> THEN <<>>
    ELSE InsertLonger(LongerFirst(SubSeq(es, 1, Len(es) - 1)), es[Len(es)])

\* a faulty variant of DictPut: the first entry of an identity is kept
DictPutKeepFirst(d, e) ==
    IF \E i \in 1..Len(d) : Normalize(d[i]) = Normalize(e) THEN d ELSE Append(d, e)

\* deduplicate[normalized] = e: a later entry replaces the value, the slot
\* keeps the place of the identity's first insertion
DictPut(d, e) ==
    IF \E i \in 1..Len(d) : Normalize(d[i]) = Normalize(e)
    THEN [i \in 1..Len(d) |-> IF Normalize(d[i]) = Normalize(e) THEN e ELSE d[i]]
    ELSE Append(d, e)

RECURSIVE DictFrom(_)
DictFrom(es) ==
    IF es = <<>> THEN <<>>
    ELSE DictPut(DictFrom(SubSeq(es, 1, Len(es) - 1)), es[Len(es)])

\* deduplicate.values()
deduplicate_entries(entries) == DictFrom(LongerFirst(entries))

(***************************************************************************)
(* inventory_by_folder                                                     *)
(***************************************************************************)
MaxInput == 4

NoFolder == "None"
Folders == {"d1", "d2", "d3"}
Files == {"a", "b"}
\* an entry's Key: <<directory, file name>>
GroupEntries == Folders \X Files

\* os.path.dirname(object_key)
Dirname(key) == key[1]

\* a faulty variant of OnEntry: the entry that opens a new folder is lost
OnEntryLoseOpener(prev, res, entry) ==
    LET folder == Dirname(entry)
        p == IF prev = NoFolder THEN folder ELSE prev
    IN  IF p = folder
        THEN [previous |-> p, result |-> Append(res, entry), yield |-> <<>>]
        ELSE [previous |-> folder, result |-> <<>>, yield |-> <<res>>]

\* one iteration of the async for: the new previous and result, and what is
\* yielded (at most one group)
OnEntry(prev, res, entry) ==
    LET folder == Dirname(entry)
        p == IF prev = NoFolder THEN folder ELSE prev
    IN  IF p = folder
        THEN [previous |-> p, result |-> Append(res, entry), yield |-> <<>>]
        ELSE [previous |-> folder, result |-> <<entry>>, yield |-> <<res>>]

\* after the loop: if result: yield result
OnEnd(res) == IF res # <<>> THEN <<res>> ELSE <<>>

(***************************************************************************)
(* csv_to_records: configuration, entries, records, URLs                   *)
(***************************************************************************)
NB_PARALLEL_REQUESTS == 2
NB_RETRY_REQUEST == 3
MaxEntries == 4
MaxMetaFiles == 2

PRODUCTS == {"firefox", "mobile"}
\* build folders "build2/" and "build10/", named by their number
BuildNums == {2, 10}

\* an inventory entry that survived deduplication, by what the loop body reads
\* of it: the product of its key, the channel, version and locale of the
\* record built from it, and whether is_build_url and record_from_url accept
Entry(product, channel, version, locale, build) ==
    [product |-> product, channel |-> channel, version |-> version,
     locale |-> locale, build |-> build]
Entries ==
    {Entry("firefox", "nightly", "1.0", "en-US", TRUE),
     Entry("firefox", "nightly", "1.0", "fr", TRUE),
     Entry("firefox", "release", "1.0rc1", "fr", TRUE),
     Entry("firefox", "release", "1.0", "en-US", TRUE),
     Entry("firefox", "release", "1.0", "en-US", FALSE),
     Entry("other", "release", "1.0", "en-US", FALSE)}

\* the entries that reach scan_candidates and build no record
ScanEntries ==
    {Entry("firefox", "release", "1.0", "en-US", FALSE),
     Entry("mobile", "release", "1.0", "en-US", FALSE),
     Entry("other", "release", "1.0", "en-US", FALSE)}
NoEntry == [product |-> "-", channel |-> "-", version |-> "-", locale |-> "-",
            build |-> FALSE]

\* scan_candidates: if product == 'mobile': product = 'fennec'
IndexProduct(product) == IF product = "mobile" THEN "fennec" ELSE product

\* record_from_url: the record skeleton of an entry
RecordOf(e) ==
    [product |-> IndexProduct(e.product), channel |-> e.channel,
     version |-> e.version, locale |-> e.locale]

\* record['download']['url']
UrlOf(r) ==
    [product |-> r.product, channel |-> r.channel, version |-> r.version,
     locale |-> r.locale]

\* localize_nightly_url, localize_release_candidate_url: the en-US URL
Localize(url) == [url EXCEPT !.locale = "en-US"]

\* fetch_metadata's dispatch
Strategy(r) ==
    IF r.channel = "nightly" THEN "nightly"
    ELSE IF r.version = "1.0rc1" THEN "rc"
    ELSE "release"

\* archive_url(product, version, platform, 'en-US', candidate='/' + folder)
ReleaseUrl(r, folder) ==
    [product |-> r.product, version |-> r.version, folder |-> folder]

(***************************************************************************)
(* Dictionaries and metadata values                                        *)
(***************************************************************************)
EmptyMap == [x \in {} |-> 0]
Put(d, k, v) == [x \in DOMAIN d \cup {k} |-> IF x = k THEN v ELSE d[x]]
Has(d, k) == k \in DOMAIN d

None == [t |-> "None"]
\* a metadata document: where it came from and its buildnumber (-1: it has none)
Meta(form, src, bn) == [t |-> "meta", form |-> form, src |-> src, buildnumber |-> bn]

\* json.dump / json.load of a cache map
ToJson(v) == IF v = None THEN [json |-> "null"] ELSE [json |-> "object", value |-> v]
FromJson(j) == IF j.json = "null" THEN None ELSE j.value
\* a faulty variant of Dump: the absent markers are left out
DumpFound(d) == [k \in {x \in DOMAIN d : d[x] # None} |-> ToJson(d[k])]

Dump(d) == [k \in DOMAIN d |-> ToJson(d[k])]
Load(f) == [k \in DOMAIN f |-> FromJson(f[k])]

NoFile == [exists |-> FALSE, rc |-> EmptyMap, release |-> EmptyMap, nightly |-> EmptyMap]

\* the cache files a previous run may have left
PriorNightlyUrl == [product |-> "firefox", channel |-> "nightly", version |-> "1.0",
                    locale |-> "en-US"]
PriorFiles ==
    {NoFile,
     [exists |-> TRUE, rc |-> EmptyMap, release |-> EmptyMap,
      nightly |-> Dump(Put(EmptyMap, PriorNightlyUrl, None))]}

(***************************************************************************)
(* The candidate build index                                               *)
(***************************************************************************)
\* the decimal digits of a folder number
Digits(n) == IF n < 10 THEN <<n>> ELSE <<n \div 10, n % 10>>

\* "build<a>/" < "build<b>/" as strings: '/' sorts before every digit
FolderChars(n) == Digits(n) \o <<-1>>

RECURSIVE SeqLess(_, _)
SeqLess(a, b) ==
    IF a = <<>> THEN b # <<>>
    ELSE IF b = <<>> THEN FALSE
    ELSE IF Head(a) # Head(b) THEN Head(a) < Head(b)
    ELSE SeqLess(Tail(a), Tail(b))

\* sorted(build_folders)[-1]
LatestFolder(bf) ==
    CHOOSE n \in bf : \A m \in bf \ {n} : SeqLess(FolderChars(m), FolderChars(n))

\* int(latest_build_folder.strip('/')[-1])
BuildNumberOf(folder) == folder % 10

\* the folders of a candidates listing: <<version, is a "-candidates/" folder>>
\* the listings a candidates folder may answer with: in a run of the pipeline
Listings ==
    {<<<<"nightly", FALSE>>>>,
     <<<<"1.0", TRUE>>>>,
     <<<<"nightly", FALSE>>, <<"nightly-old", FALSE>>, <<"1.0", TRUE>>>>}

\* and when the scan is studied alone
ScanListings ==
    {<<>>,
     <<<<"nightly", FALSE>>>>,
     <<<<"2.0", TRUE>>>>,
     <<<<"1.0", TRUE>>, <<"2.0", TRUE>>>>,
     <<<<"1.0", TRUE>>, <<"nightly", FALSE>>, <<"2.0", TRUE>>>>,
     <<<<"1.0", TRUE>>, <<"2.0", TRUE>>, <<"3.0", TRUE>>>>}

Min(a, b) == IF a < b THEN a ELSE b

\* chunked(candidates_folders, NB_PARALLEL_REQUESTS): the chunk that starts at pos
ChunkAt(folders, pos) ==
    SubSeq(folders, pos, Min(Len(folders), pos + NB_PARALLEL_REQUESTS - 1))

\* the versions of a chunk, in order
RECURSIVE VersionsOf(_)
VersionsOf(chunk) ==
    IF chunk = <<>> THEN <<>>
    ELSE (IF Head(chunk)[2] THEN <<Head(chunk)[1]>> ELSE <<>>) \o VersionsOf(Tail(chunk))

\* the start of the first chunk, from pos on, that lists a version; a chunk
\* without one gathers nothing. Len(folders) + 1 when there is none
RECURSIVE BusyChunk(_, _)
BusyChunk(folders, pos) ==
    IF pos > Len(folders) THEN Len(folders) + 1
    ELSE IF VersionsOf(ChunkAt(folders, pos)) # <<>> THEN pos
    ELSE BusyChunk(folders, pos + NB_PARALLEL_REQUESTS)

NoScan == [st |-> "idle", product |-> "-", try |-> 0, folders |-> <<>>, pos |-> 0,
           out |-> EmptyMap, got |-> EmptyMap]

(***************************************************************************)
(* fetch_json                                                              *)
(***************************************************************************)
MaxScript == 4

\* what may happen to one GET of fetch_json:
\*   json      response.json() returns the document
\*   octet     response.json() raises ClientResponseError (wrong content type)
\*             and response.json(content_type='application/octet-stream')
\*             returns the document
\*   octet-bad the same, and the second parse raises ValueError
\*   client    session.get raises aiohttp.ClientError
\*   value     the body is no JSON: ValueError
\*   timeout   async_timeout raises asyncio.TimeoutError
Responses == {"json", "octet", "octet-bad", "client", "value", "timeout"}

\* the exception that leaves the body of fetch_json, "none" when it returns
Raises(response) ==
    CASE response \in {"json", "octet"} -> "none"
      [] response = "client" -> "ClientError"
      [] response \in {"value", "octet-bad"} -> "ValueError"
      [] OTHER -> "TimeoutError"

\* a faulty variant of Retries: any exception is tried again
RetriesAnyError(exc, try) == try < NB_RETRY_REQUEST

\* backoff.on_exception(backoff.expo, asyncio.TimeoutError,
\*                      max_tries=NB_RETRY_REQUEST): the call is made again
Retries(exc, try) == exc = "TimeoutError" /\ try < NB_RETRY_REQUEST

(***************************************************************************)
(* Tasks: one fetch_metadata call per record of the batch                  *)
(***************************************************************************)
\* st: the request the task waits for, or "done" (returned) or "raised" (an
\*     exception left fetch_metadata)
\* try: the attempt of the current fetch_json call; gets, timeouts: the GET
\*     requests the task's latest fetch_json call has issued, and how many of
\*     them timed out; key: the cache key it resolved
\* late: at its start the normalized key had already been marked absent
\* warned: logger.warning was called for the record (lines 86, 143, 180)
\* listed: what became of fetch_release_metadata's listing of the build folder
Task(st, key, res, files, late) ==
    [st |-> st, try |-> IF st = "done" THEN 0 ELSE 1,
     gets |-> IF st = "done" THEN 0 ELSE 1, timeouts |-> 0,
     key |-> key, res |-> res, files |-> files, late |-> late, warned |-> FALSE,
     listed |-> "-"]

\* a faulty variant of NightlyLookupKey: the cache is asked for the record's own URL
NightlyLookupKeyRaw(url) == url

\* fetch_nightly_metadata: the key of the cache lookup
NightlyLookupKey(url) == Localize(url)

\* fetch_nightly_metadata: the key the absent marker is stored under
NightlyAbsentKey(url) == url

\* a faulty variant of StartTask: a release record whose version the index
\* lacks is looked up in the folder build2/
StartTaskGuessFolder(r, marked) ==
    LET url == UrlOf(r)
        nurl == Localize(url)
        late == <<Strategy(r), nurl>> \in marked
    IN  CASE Strategy(r) = "nightly" ->
               IF Has(nightlyCache, NightlyLookupKey(url))
               THEN Task("done", nurl, nightlyCache[NightlyLookupKey(url)], 0, late)
               ELSE Task("json", nurl, None, 0, late)
          [] Strategy(r) = "rc" ->
               IF Has(rcCache, nurl)
               THEN Task("done", nurl, rcCache[nurl], 0, late)
               ELSE Task("rcjson", nurl, None, 0, late)
          [] OTHER ->
               IF ~Has(folderOf, <<r.product, r.version>>)
               THEN Task("listing", ReleaseUrl(r, 2), None, 0, FALSE)
               ELSE LET rurl == ReleaseUrl(r, folderOf[<<r.product, r.version>>])
                        rlate == <<"release", rurl>> \in marked
                    IN  IF Has(releaseCache, rurl)
                        THEN Task("done", rurl, releaseCache[rurl], 0, rlate)
                        ELSE Task("listing", rurl, None, 0, rlate)

\* the synchronous start of fetch_metadata(session, r), up to its first await
StartTask(r, marked) ==
    LET url == UrlOf(r)
        nurl == Localize(url)
        late == <<Strategy(r), nurl>> \in marked
    IN  CASE Strategy(r) = "nightly" ->
               IF Has(nightlyCache, NightlyLookupKey(url))
               THEN Task("done", nurl, nightlyCache[NightlyLookupKey(url)], 0, late)
               ELSE Task("json", nurl, None, 0, late)
          [] Strategy(r) = "rc" ->
               IF Has(rcCache, nurl)
               THEN Task("done", nurl, rcCache[nurl], 0, late)
               ELSE Task("rcjson", nurl, None, 0, late)
          [] OTHER ->
               IF ~Has(folderOf, <<r.product, r.version>>)
               THEN Task("done", nurl, None, 0, FALSE)
               ELSE LET rurl == ReleaseUrl(r, folderOf[<<r.product, r.version>>])
                        rlate == <<"release", rurl>> \in marked
                    IN  IF Has(releaseCache, rurl)
                        THEN Task("done", rurl, releaseCache[rurl], 0, rlate)
                        ELSE Task("listing", rurl, None, 0, rlate)

\* _candidates_build_folder[product] of a defaultdict creates the product's entry
IndexTouched(b) == {b[i].product : i \in {j \in 1..Len(b) : Strategy(b[j]) = "release"}}

NoHist ==
    [abort |-> "none", built |-> 0, handed |-> 0, emitted |-> 0, batches |-> 0,
     scanned |-> {}, relisted |-> {}, marked |-> {},
     resolved |-> EmptyMap, calls |-> EmptyMap, cachedAt |-> EmptyMap]

\* a counter kept under key k
Count(m, k) == IF Has(m, k) THEN m[k] ELSE 0

RECURSIVE CountAll(_, _)
CountAll(m, ks) ==
    IF ks = <<>> THEN m
    ELSE CountAll(Put(m, Head(ks), Count(m, Head(ks)) + 1), Tail(ks))

\* the normalized URLs of the nightly records of a batch, in order
RECURSIVE NightlyKeys(_)
NightlyKeys(b) ==
    IF b = <<>> THEN <<>>
    ELSE (IF Strategy(Head(b)) = "nightly" THEN <<Localize(UrlOf(Head(b)))>> ELSE <<>>)
         \o NightlyKeys(Tail(b))

RECURSIVE NightlyMisses(_, _)
NightlyMisses(b, ts) ==
    IF b = <<>> THEN <<>>
    ELSE (IF ts[1].st = "json" THEN <<Localize(UrlOf(Head(b)))>> ELSE <<>>)
         \o NightlyMisses(Tail(b), Tail(ts))

\* process_batch(session, b, skip_incomplete) up to its await of the gather:
\* every fetch_metadata runs to its first request before any response is read
StartBatch(b, ix, h, last) ==
    LET ts == [i \in 1..Len(b) |-> StartTask(b[i], h.marked)]
        n == h.batches + 1
    IN  /\ tasks' = ts
        /\ final' = last
        /\ pc' = "fetch"
        /\ indexed' = ix \cup IndexTouched(b)
        /\ batch' = b
        /\ hist' = [h EXCEPT !.batches = n,
                             !.handed = @ + Len(b),
                             !.resolved = CountAll(@, NightlyKeys(b)),
                             !.calls = CountAll(@, NightlyMisses(b, ts))]

\* a faulty variant of Accumulate: a full batch takes one record more
AccumulateOneMore(r, ix, h) ==
    IF Len(batch) <= NB_PARALLEL_REQUESTS
    THEN /\ batch' = Append(batch, r)
         /\ pc' = "read"
         /\ indexed' = ix
         /\ hist' = h
         /\ UNCHANGED <<tasks, final>>
    ELSE StartBatch(batch, ix, h, FALSE)

\* csv_to_records: if len(batch) < NB_PARALLEL_REQUESTS: batch.append(record)
\* else: process_batch(batch)
Accumulate(r, ix, h) ==
    IF Len(batch) < NB_PARALLEL_REQUESTS
    THEN /\ batch' = Append(batch, r)
         /\ pc' = "read"
         /\ indexed' = ix
         /\ hist' = h
         /\ UNCHANGED <<tasks, final>>
    ELSE StartBatch(batch, ix, h, FALSE)

\* the loop body after scan_candidates returned: ix the index's products, h the
\* history so far
AfterScan(e, ix, h) ==
    IF ~e.build
    THEN /\ pc' = "read"
         /\ indexed' = ix
         /\ hist' = h
         /\ UNCHANGED <<batch, tasks, final>>
    ELSE Accumulate(RecordOf(e), ix, [h EXCEPT !.built = @ + 1])

Abort(h, why) ==
    /\ pc' = "aborted"
    /\ hist' = [h EXCEPT !.abort = why]

(***************************************************************************)
(* Spec: the pipeline of csv_to_records                                    *)
(***************************************************************************)
GroupIdle ==
    /\ gInput = <<>> /\ gPos = 0 /\ previous = NoFolder
    /\ result = <<>> /\ groups = <<>> /\ gDone = TRUE
DedupIdle == dIn = <<>> /\ dOut = <<>> /\ dDone = TRUE
FetchIdle == fScript = <<>> /\ fTry = 0 /\ fGets = 0 /\ fResult = "idle"

\* the sink has consumed what the latest batch yielded
Consumed == output' = <<>>

\* the state after the cache file is loaded and the session is open
Init ==
    /\ GroupIdle /\ DedupIdle /\ FetchIdle
    /\ pc = "read" /\ nRead = 0 /\ cur = NoEntry
    /\ batch = <<>> /\ final = FALSE /\ tasks = <<>>
    /\ skip_incomplete \in BOOLEAN
    /\ cacheFile \in PriorFiles
    /\ rcCache = Load(cacheFile.rc)
    /\ releaseCache = Load(cacheFile.release)
    /\ nightlyCache = Load(cacheFile.nightly)
    /\ indexed = {} /\ folderOf = EmptyMap
    /\ scan = NoScan /\ output = <<>>
    /\ hist = [NoHist EXCEPT
                 !.cachedAt = [k \in DOMAIN cacheFile.nightly |->
                                 [batch |-> 0, calls |-> 0]]]

\* one iteration of the loop over the entries, up to its first await
Read(entries) ==
    /\ pc = "read" /\ nRead < MaxEntries
    /\ \E e \in entries :
         /\ nRead' = nRead + 1
         /\ IF e.product \notin PRODUCTS
            THEN UNCHANGED <<pc, cur, batch, final, tasks, indexed, scan, hist>>
            ELSE IF IndexProduct(e.product) \in indexed
            THEN /\ AfterScan(e, indexed, hist)
                 /\ UNCHANGED <<cur, scan>>
            ELSE /\ pc' = "scan"
                 /\ cur' = e
                 /\ scan' = [NoScan EXCEPT !.st = "candidates",
                                           !.product = IndexProduct(e.product),
                                           !.try = 1]
                 /\ hist' = [hist EXCEPT !.relisted =
                               @ \cup ({IndexProduct(e.product)} \cap hist.scanned)]
                 /\ UNCHANGED <<batch, final, tasks, indexed>>
    /\ UNCHANGED <<skip_incomplete, nightlyCache, rcCache, releaseCache, folderOf,
                   cacheFile>>
    /\ Consumed
    /\ UNCHANGED <<groupVars, dedupVars, fetchVars>>

ReadEntry == Read(Entries)

\* scan_candidates returns: the loop body goes on with the entry
ScanReturns(ix) ==
    /\ AfterScan(cur, ix,
                 [hist EXCEPT !.scanned = @ \cup {scan.product}])
    /\ scan' = NoScan
    /\ cur' = NoEntry

\* the zip loop over a gathered chunk: the versions assigned before the first
\* one whose listing has no build folder
RECURSIVE Assignable(_, _)
Assignable(vs, got) ==
    IF vs = <<>> \/ got[Head(vs)] = {} THEN <<>>
    ELSE <<Head(vs)>> \o Assignable(Tail(vs), got)

RECURSIVE AssignAll(_, _, _, _)
AssignAll(fo, product, vs, got) ==
    IF vs = <<>> THEN fo
    ELSE AssignAll(Put(fo, <<product, Head(vs)>>, LatestFolder(got[Head(vs)])),
                   product, Tail(vs), got)

\* the requests of the chunk that starts at pos, all at their first attempt
Futures(folders, pos) ==
    [v \in Range(VersionsOf(ChunkAt(folders, pos))) |-> 1]

\* the response to the listing of the product's candidates folder
ScanListed(listings) ==
    /\ pc = "scan" /\ scan.st = "candidates"
    /\ \/ \* asyncio.TimeoutError: backoff tries again, or gives up
          /\ IF Retries("TimeoutError", scan.try)
             THEN /\ scan' = [scan EXCEPT !.try = @ + 1]
                  /\ UNCHANGED <<pc, hist>>
             ELSE /\ Abort(hist, "timeout")
                  /\ UNCHANGED scan
          /\ UNCHANGED <<cur, batch, final, tasks, indexed>>
       \/ \* fetch_listing raises ValueError, which nothing catches
          /\ Abort(hist, "listing")
          /\ UNCHANGED <<scan, cur, batch, final, tasks, indexed>>
       \/ \E l \in listings :
            LET pos == BusyChunk(l, 1)
            IN  IF pos > Len(l)
                THEN ScanReturns(indexed)
                ELSE /\ scan' = [scan EXCEPT !.st = "builds", !.folders = l,
                                             !.pos = pos, !.out = Futures(l, pos),
                                             !.got = EmptyMap]
                     /\ UNCHANGED <<pc, cur, batch, final, tasks, indexed, hist>>
    /\ UNCHANGED <<nRead, skip_incomplete, nightlyCache, rcCache, releaseCache,
                   folderOf, cacheFile>>
    /\ Consumed
    /\ UNCHANGED <<groupVars, dedupVars, fetchVars>>

ScanListingResponse == ScanListed(Listings)

\* the response to the listing of one version's build folders
ScanBuildsResponse ==
    /\ pc = "scan" /\ scan.st = "builds"
    /\ \E v \in DOMAIN scan.out :
         \/ /\ IF Retries("TimeoutError", scan.out[v])
               THEN /\ scan' = [scan EXCEPT !.out[v] = @ + 1]
                    /\ UNCHANGED <<pc, hist>>
               ELSE /\ Abort(hist, "timeout")
                    /\ UNCHANGED scan
            /\ UNCHANGED <<cur, batch, final, tasks, indexed, folderOf>>
         \/ /\ Abort(hist, "listing")
            /\ UNCHANGED <<scan, cur, batch, final, tasks, indexed, folderOf>>
         \/ \E bf \in SUBSET BuildNums :
              LET got == Put(scan.got, v, bf)
                  out == [w \in DOMAIN scan.out \ {v} |-> scan.out[w]]
                  vs == VersionsOf(ChunkAt(scan.folders, scan.pos))
                  ok == Assignable(vs, got)
                  ix == IF ok = <<>> THEN indexed ELSE indexed \cup {scan.product}
                  pos == BusyChunk(scan.folders, scan.pos + NB_PARALLEL_REQUESTS)
              IN  IF DOMAIN out # {}
                  THEN /\ scan' = [scan EXCEPT !.out = out, !.got = got]
                       /\ UNCHANGED <<pc, cur, batch, final, tasks, indexed,
                                      folderOf, hist>>
                  ELSE /\ folderOf' = AssignAll(folderOf, scan.product, ok, got)
                       /\ IF ok # vs
                          THEN \* sorted([])[-1]: IndexError
                               /\ Abort(hist, "index")
                               /\ indexed' = ix
                               /\ scan' = [scan EXCEPT !.out = out, !.got = got]
                               /\ UNCHANGED <<cur, batch, final, tasks>>
                          ELSE IF pos > Len(scan.folders)
                          THEN ScanReturns(ix)
                          ELSE /\ scan' = [scan EXCEPT !.pos = pos,
                                             !.out = Futures(scan.folders, pos),
                                             !.got = EmptyMap]
                               /\ indexed' = ix
                               /\ UNCHANGED <<pc, cur, batch, final, tasks, hist>>
    /\ UNCHANGED <<nRead, skip_incomplete, nightlyCache, rcCache, releaseCache,
                   cacheFile>>
    /\ Consumed
    /\ UNCHANGED <<groupVars, dedupVars, fetchVars>>

\* the input ends: the last process_batch
EndOfInput ==
    /\ pc = "read"
    /\ StartBatch(batch, indexed, hist, TRUE)
    /\ UNCHANGED <<nRead, cur, skip_incomplete, nightlyCache, rcCache, releaseCache,
                   folderOf, cacheFile, scan>>
    /\ Consumed
    /\ UNCHANGED <<groupVars, dedupVars, fetchVars>>

(***************************************************************************)
(* The responses to the requests of the batch's fetch_metadata calls       *)
(***************************************************************************)
Returned(t, res) == [t EXCEPT !.st = "done", !.res = res]

\* the strategy, or fetch_metadata's except ValueError, logs a warning and the
\* record resolves to None
Warned(t) == [t EXCEPT !.st = "done", !.res = None, !.warned = TRUE]

\* the first time a normalized nightly URL becomes a key of the cache
NoteCached(h, k) ==
    IF Has(h.cachedAt, k) THEN h
    ELSE [h EXCEPT !.cachedAt =
            Put(@, k, [batch |-> h.batches, calls |-> Count(h.calls, k)])]

PipeRest == <<nRead, cur, batch, final, skip_incomplete, indexed, folderOf,
              cacheFile, scan>>

\* fetch_json's request timed out: backoff issues it again, or, after
\* NB_RETRY_REQUEST tries, lets asyncio.TimeoutError through; fetch_metadata
\* catches ValueError only, and the gather of process_batch raises
TimedOut(i) ==
    IF Retries("TimeoutError", tasks[i].try)
    THEN /\ tasks' = [tasks EXCEPT ![i].try = @ + 1, ![i].gets = @ + 1,
                                   ![i].timeouts = @ + 1]
         /\ UNCHANGED <<pc, hist>>
    ELSE /\ tasks' = [tasks EXCEPT ![i].st = "raised", ![i].timeouts = @ + 1]
         /\ Abort(hist, "timeout")

\* fetch_nightly_metadata: the response to the GET of the .json document
NightlyJsonResponse ==
    /\ pc = "fetch"
    /\ \E i \in 1..Len(tasks) :
         /\ tasks[i].st = "json"
         /\ LET url == UrlOf(batch[i])
                key == Localize(url)
            IN  \/ /\ nightlyCache' = Put(nightlyCache, key, Meta("json", key, -1))
                   /\ tasks' = [tasks EXCEPT ![i] = Returned(@, Meta("json", key, -1))]
                   /\ hist' = NoteCached(hist, key)
                   /\ UNCHANGED pc
                \/ \* aiohttp.ClientError: the .txt document is asked for
                   /\ tasks' = [tasks EXCEPT ![i].st = "txt", ![i].try = 0]
                   /\ UNCHANGED <<pc, hist, nightlyCache>>
                \/ \* the body is no JSON: ValueError, caught by fetch_metadata
                   /\ tasks' = [tasks EXCEPT ![i] = Warned(@)]
                   /\ UNCHANGED <<pc, hist, nightlyCache>>
                \/ /\ TimedOut(i)
                   /\ UNCHANGED nightlyCache
    /\ UNCHANGED <<rcCache, releaseCache>>
    /\ UNCHANGED PipeRest
    /\ Consumed
    /\ UNCHANGED <<groupVars, dedupVars, fetchVars>>

\* fetch_nightly_metadata: the response to the GET of the old .txt document
NightlyTxtResponse ==
    /\ pc = "fetch"
    /\ \E i \in 1..Len(tasks) :
         /\ tasks[i].st = "txt"
         /\ LET url == UrlOf(batch[i])
                key == Localize(url)
            IN  \/ \E form \in {"txt-rev", "txt-stamp"} :
                     /\ nightlyCache' = Put(nightlyCache, key, Meta(form, key, -1))
                     /\ tasks' = [tasks EXCEPT ![i] = Returned(@, Meta(form, key, -1))]
                     /\ hist' = NoteCached(hist, key)
                     /\ UNCHANGED pc
                \/ \* no pattern matches, or aiohttp.ClientError
                   /\ nightlyCache' = Put(nightlyCache, NightlyAbsentKey(url), None)
                   /\ tasks' = [tasks EXCEPT ![i] = Warned(@)]
                   /\ hist' = [(IF Has(nightlyCache', key)
                                THEN NoteCached(hist, key) ELSE hist)
                               EXCEPT !.marked = @ \cup {<<"nightly", key>>}]
                   /\ UNCHANGED pc
                \/ \* session.get's own timeout: asyncio.TimeoutError
                   /\ tasks' = [tasks EXCEPT ![i].st = "raised"]
                   /\ Abort(hist, "timeout")
                   /\ UNCHANGED nightlyCache
    /\ UNCHANGED <<rcCache, releaseCache>>
    /\ UNCHANGED PipeRest
    /\ Consumed
    /\ UNCHANGED <<groupVars, dedupVars, fetchVars>>

\* fetch_release_candidate_metadata: metadata_url, by product
RcMetadataUrl(r) ==
    IF r.product = "fennec"
    THEN [doc |-> "json", of |-> Localize(UrlOf(r))]
    ELSE [doc |-> "product-major.json", of |-> Localize(UrlOf(r))]

\* re.search('/build(\d+)/', url): the records' URLs are of build1
RcBuildNumber(url) == IF url.version = "1.0rc1" THEN 1 ELSE 0

\* fetch_release_candidate_metadata: the response to the GET of the document
RcJsonResponse ==
    /\ pc = "fetch"
    /\ \E i \in 1..Len(tasks) :
         /\ tasks[i].st = "rcjson"
         /\ LET url == UrlOf(batch[i])
                key == Localize(url)
                meta == Meta("json", RcMetadataUrl(batch[i]), RcBuildNumber(url))
            IN  \/ /\ rcCache' = Put(rcCache, key, meta)
                   /\ tasks' = [tasks EXCEPT ![i] = Returned(@, meta)]
                   /\ UNCHANGED <<pc, hist>>
                \/ \* aiohttp.ClientError
                   /\ rcCache' = Put(rcCache, key, None)
                   /\ tasks' = [tasks EXCEPT ![i] = Warned(@)]
                   /\ hist' = [hist EXCEPT !.marked = @ \cup {<<"rc", key>>}]
                   /\ UNCHANGED pc
                \/ \* ValueError, caught by fetch_metadata
                   /\ tasks' = [tasks EXCEPT ![i] = Warned(@)]
                   /\ UNCHANGED <<pc, hist, rcCache>>
                \/ /\ TimedOut(i)
                   /\ UNCHANGED rcCache
    /\ UNCHANGED <<nightlyCache, releaseCache>>
    /\ UNCHANGED PipeRest
    /\ Consumed
    /\ UNCHANGED <<groupVars, dedupVars, fetchVars>>

\* fetch_release_metadata: _release_metadata[url] = None, and then either
\* return None (the listing failed, line 262) or raise ValueError('Missing
\* metadata ...') (line 278), which fetch_metadata logs
ReleaseAbsent(i, missing) ==
    /\ releaseCache' = Put(releaseCache, tasks[i].key, None)
    /\ tasks' = [tasks EXCEPT ![i] =
                    IF missing THEN [Warned(@) EXCEPT !.listed = "ok"]
                    ELSE [Returned(@, None) EXCEPT !.listed = "failed"]]
    /\ hist' = [hist EXCEPT !.marked = @ \cup {<<"release", tasks[i].key>>}]
    /\ UNCHANGED pc

\* fetch_release_metadata: the response to the listing of the build folder
ReleaseListingResponse ==
    /\ pc = "fetch"
    /\ \E i \in 1..Len(tasks) :
         /\ tasks[i].st = "listing"
         /\ \/ \* files: n of them are the version's metadata file
               \E n \in 0..MaxMetaFiles :
                 IF n = 0
                 THEN ReleaseAbsent(i, TRUE)
                 ELSE /\ tasks' = [tasks EXCEPT ![i].st = "file", ![i].files = n,
                                                ![i].listed = "ok",
                                                ![i].try = 1, ![i].gets = 1,
                                                ![i].timeouts = 0]
                      /\ UNCHANGED <<pc, hist, releaseCache>>
            \/ \* fetch_listing raises ValueError, caught at line 259
               ReleaseAbsent(i, FALSE)
            \/ /\ TimedOut(i)
               /\ UNCHANGED releaseCache
    /\ UNCHANGED <<nightlyCache, rcCache>>
    /\ UNCHANGED PipeRest
    /\ Consumed
    /\ UNCHANGED <<groupVars, dedupVars, fetchVars>>

\* fetch_release_metadata: the response to the GET of a metadata file
ReleaseFileResponse ==
    /\ pc = "fetch"
    /\ \E i \in 1..Len(tasks) :
         /\ tasks[i].st = "file"
         /\ LET key == tasks[i].key
                meta == Meta("json", key, BuildNumberOf(key.folder))
            IN  \/ /\ releaseCache' = Put(releaseCache, key, meta)
                   /\ tasks' = [tasks EXCEPT ![i] = Returned(@, meta)]
                   /\ UNCHANGED <<pc, hist>>
                \/ \* aiohttp.ClientError: pass, the loop goes to the next file
                   IF tasks[i].files > 1
                   THEN /\ tasks' = [tasks EXCEPT ![i].files = @ - 1,
                                                  ![i].try = 1, ![i].gets = 1,
                                                  ![i].timeouts = 0]
                        /\ UNCHANGED <<pc, hist, releaseCache>>
                   ELSE ReleaseAbsent(i, TRUE)
                \/ \* ValueError, caught by fetch_metadata
                   /\ tasks' = [tasks EXCEPT ![i] = Warned(@)]
                   /\ UNCHANGED <<pc, hist, releaseCache>>
                \/ /\ TimedOut(i)
                   /\ UNCHANGED releaseCache
    /\ UNCHANGED <<nightlyCache, rcCache>>
    /\ UNCHANGED PipeRest
    /\ Consumed
    /\ UNCHANGED <<groupVars, dedupVars, fetchVars>>

(***************************************************************************)
(* process_batch after the gather, and the end of csv_to_records           *)
(***************************************************************************)
\* merge_metadata(record, metadata)
merge_metadata(r, m) == [url |-> UrlOf(r), build |-> m]

\* check_record(result) raises ValueError
CheckFails(res) == res.build = None

\* a faulty variant of Yielded: a result that fails the check is skipped under
\* either policy
RECURSIVE YieldedChecked(_, _)
YieldedChecked(results, skip) ==
    IF results = <<>> THEN <<>>
    ELSE (IF CheckFails(Head(results)) THEN <<>> ELSE <<Head(results)>>)
         \o YieldedChecked(Tail(results), skip)

\* the results process_batch yields, in order
RECURSIVE Yielded(_, _)
Yielded(results, skip) ==
    IF results = <<>> THEN <<>>
    ELSE (IF CheckFails(Head(results)) /\ skip THEN <<>> ELSE <<Head(results)>>)
         \o Yielded(Tail(results), skip)

\* a faulty variant of Gathered: the results in the reverse order
GatheredReversed(ts) == [i \in 1..Len(ts) |-> ts[Len(ts) + 1 - i].res]

\* metadatas = await asyncio.gather(*futures): the results in the order of the
\* futures, whatever the order they completed in
Gathered(ts) == [i \in 1..Len(ts) |-> ts[i].res]

\* every fetch_metadata returned: merge, check, yield; then the next entry, or
\* after the last batch the end of the session
BatchComplete ==
    /\ pc = "fetch"
    /\ \A i \in 1..Len(tasks) : tasks[i].st = "done"
    /\ LET results == [i \in 1..Len(batch) |->
                         merge_metadata(batch[i], Gathered(tasks)[i])]
       IN  /\ output' = Yielded(results, skip_incomplete)
           /\ hist' = [hist EXCEPT !.emitted = @ + Len(output')]
    /\ batch' = <<>>
    /\ tasks' = <<>>
    /\ pc' = IF final THEN "save" ELSE "read"
    /\ UNCHANGED <<nRead, cur, final, skip_incomplete, nightlyCache, rcCache,
                   releaseCache, indexed, folderOf, cacheFile, scan>>
    /\ UNCHANGED <<groupVars, dedupVars, fetchVars>>

\* json.dump to the temporary file and os.rename over the cache file
SaveCache ==
    /\ pc = "save"
    /\ \/ /\ cacheFile' = [exists |-> TRUE, rc |-> Dump(rcCache),
                           release |-> Dump(releaseCache),
                           nightly |-> Dump(nightlyCache)]
          /\ pc' = "done"
          /\ UNCHANGED hist
       \/ \* open or json.dump raises OSError
          /\ Abort(hist, "save")
          /\ UNCHANGED cacheFile
    /\ UNCHANGED <<nRead, cur, batch, final, tasks, skip_incomplete, nightlyCache,
                   rcCache, releaseCache, indexed, folderOf, scan>>
    /\ Consumed
    /\ UNCHANGED <<groupVars, dedupVars, fetchVars>>

Next ==
    \/ ReadEntry
    \/ ScanListingResponse
    \/ ScanBuildsResponse
    \/ EndOfInput
    \/ NightlyJsonResponse
    \/ NightlyTxtResponse
    \/ RcJsonResponse
    \/ ReleaseListingResponse
    \/ ReleaseFileResponse
    \/ BatchComplete
    \/ SaveCache

Spec == Init /\ [][Next]_vars

(***************************************************************************)
(* SpecScan: scan_candidates alone, called for entries that build no       *)
(* record, on a richer archive                                             *)
(***************************************************************************)
ScanRead == Read(ScanEntries)

ScanListingRich == ScanListed(ScanListings)

InitScan ==
    /\ Init
    /\ skip_incomplete = TRUE
    /\ cacheFile = NoFile

NextScan ==
    \/ ScanRead
    \/ ScanListingRich
    \/ ScanBuildsResponse

SpecScan == InitScan /\ [][NextScan]_vars

(***************************************************************************)
(* SpecRelease: the pipeline on release records, with the richer archive   *)
(* of SpecScan: the scan gathers more than one chunk of listings           *)
(***************************************************************************)
ReleaseEntries ==
    {Entry("firefox", "release", "1.0", "en-US", TRUE),
     Entry("other", "release", "1.0", "en-US", FALSE)}

ReleaseRead == Read(ReleaseEntries)

InitRelease ==
    /\ Init
    /\ cacheFile = NoFile

NextRelease ==
    \/ ReleaseRead
    \/ ScanListingRich
    \/ ScanBuildsResponse
    \/ EndOfInput
    \/ ReleaseListingResponse
    \/ ReleaseFileResponse
    \/ BatchComplete
    \/ SaveCache

SpecRelease == InitRelease /\ [][NextRelease]_vars

(***************************************************************************)
(* SpecGroup: inventory_by_folder on every input of at most MaxInput       *)
(* entries                                                                 *)
(***************************************************************************)
PipeIdle ==
    /\ pc = "idle" /\ nRead = 0 /\ cur = NoEntry
    /\ batch = <<>> /\ final = FALSE /\ tasks = <<>>
    /\ skip_incomplete = TRUE
    /\ cacheFile = NoFile
    /\ rcCache = EmptyMap /\ releaseCache = EmptyMap /\ nightlyCache = EmptyMap
    /\ indexed = {} /\ folderOf = EmptyMap
    /\ scan = NoScan /\ output = <<>>
    /\ hist = NoHist

InitGroup ==
    /\ PipeIdle /\ DedupIdle /\ FetchIdle
    /\ gInput \in SeqsUpTo(GroupEntries, MaxInput)
    /\ gPos = 0 /\ previous = NoFolder /\ result = <<>> /\ groups = <<>>
    /\ gDone = FALSE

\* async for entry in read_csv(stdin): one iteration
GroupEntry ==
    /\ ~gDone /\ gPos < Len(gInput)
    /\ LET r == OnEntry(previous, result, gInput[gPos + 1])
       IN  /\ previous' = r.previous
           /\ result' = r.result
           /\ groups' = groups \o r.yield
    /\ gPos' = gPos + 1
    /\ UNCHANGED <<gInput, gDone>>
    /\ UNCHANGED <<dedupVars, fetchVars, pipeVars>>

\* the input is exhausted
GroupEnd ==
    /\ ~gDone /\ gPos = Len(gInput)
    /\ groups' = groups \o OnEnd(result)
    /\ gDone' = TRUE
    /\ UNCHANGED <<gInput, gPos, previous, result>>
    /\ UNCHANGED <<dedupVars, fetchVars, pipeVars>>

NextGroup == GroupEntry \/ GroupEnd

SpecGroup == InitGroup /\ [][NextGroup]_vars

(***************************************************************************)
(* SpecDedup: deduplicate_entries on every group of at most MaxGroup       *)
(* entries of distinct keys                                                *)
(***************************************************************************)
InitDedup ==
    /\ PipeIdle /\ GroupIdle /\ FetchIdle
    /\ dIn \in {g \in SeqsUpTo(DedupKeys, MaxGroup) : NoRepeat(g)}
    /\ dOut = <<>>
    /\ dDone = FALSE

Deduplicate ==
    /\ ~dDone
    /\ dOut' = deduplicate_entries(dIn)
    /\ dDone' = TRUE
    /\ UNCHANGED dIn
    /\ UNCHANGED <<groupVars, fetchVars, pipeVars>>

NextDedup == Deduplicate

SpecDedup == InitDedup /\ [][NextDedup]_vars

(***************************************************************************)
(* SpecFetch: one call of fetch_json; the script says what happens to its  *)
(* successive GET requests                                                 *)
(***************************************************************************)
InitFetch ==
    /\ PipeIdle /\ GroupIdle /\ DedupIdle
    /\ fScript \in [1..MaxScript -> Responses]
    /\ fTry = 1 /\ fGets = 1
    /\ fResult = "pending"

\* the outcome of the GET of the current attempt
FetchResponse ==
    /\ fResult = "pending" /\ fTry <= Len(fScript)
    /\ LET exc == Raises(fScript[fTry])
       IN  IF exc = "none"
           THEN /\ fResult' = "json"
                /\ UNCHANGED <<fTry, fGets>>
           ELSE IF Retries(exc, fTry)
           THEN /\ fTry' = fTry + 1
                /\ fGets' = fGets + 1
                /\ UNCHANGED fResult
           ELSE /\ fResult' = exc
                /\ UNCHANGED <<fTry, fGets>>
    /\ UNCHANGED fScript
    /\ UNCHANGED <<groupVars, dedupVars, pipeVars>>

NextFetch == FetchResponse

SpecFetch == InitFetch /\ [][NextFetch]_vars

(***************************************************************************)
(* Properties                                                              *)
(***************************************************************************)
\* every attempt of the task's fetch_json call timed out
Exhausted(t) == t.timeouts = NB_RETRY_REQUEST

Absent(t) == t.st = "done" /\ t.res = None

\* C1: a record whose fetch times out on every attempt resolves to absent
\* metadata, and neither its batch nor the run is given up: the other fetches
\* of the batch are still awaited and the run is not aborted.
C1_TimeoutFailsOnlyItsRecord ==
    \A i \in 1..Len(tasks) :
        Exhausted(tasks[i]) =>
            /\ Absent(tasks[i])
            /\ pc # "aborted"
            /\ \A j \in 1..Len(tasks) : tasks[j].st # "raised"

\* C2: the run is never given up because of a record's fetch or because the
\* listing of a product's candidates failed.
C2_NoFailureAbortsTheRun ==
    pc = "aborted" => hist.abort \notin {"timeout", "listing", "index"}

\* C3: at the end of the input every record skeleton built has been handed to
\* process_batch, and under the lenient policy every one has been emitted.
C3_EveryRecordBatchedOnce ==
    pc \in {"save", "done"} =>
        /\ hist.handed = hist.built
        /\ ~skip_incomplete => hist.emitted = hist.built

\* the cache map of a strategy, as written to the file and loaded again
Reloaded(strategy) ==
    CASE strategy = "nightly" -> Load(cacheFile.nightly)
      [] strategy = "rc" -> Load(cacheFile.rc)
      [] OTHER -> Load(cacheFile.release)

\* C4: a resolution that starts after its normalized key was marked absent
\* issues no request and returns absent, and after a clean end every key marked
\* absent in the run is absent in the reloaded cache file.
C4_NegativeCacheStable ==
    /\ \A i \in 1..Len(tasks) :
         tasks[i].late => tasks[i].gets = 0 /\ Absent(tasks[i])
    /\ pc = "done" =>
         \A m \in hist.marked :
            Has(Reloaded(m[1]), m[2]) /\ Reloaded(m[1])[m[2]] = None

C6_RetryBoundThenAbsent ==
    \A i \in 1..Len(tasks) :
        Exhausted(tasks[i]) =>
            /\ tasks[i].gets = NB_RETRY_REQUEST
            /\ Absent(tasks[i])

\* the entries of a group that share the identity of e
SameIdentity(g, e) == {i \in 1..Len(g) : Normalize(g[i]) = Normalize(e)}

\* one survivor for each identity of the group, and no other entry
OnePerIdentity ==
    /\ Range(dOut) \subseteq Range(dIn)
    /\ \A i \in 1..Len(dIn) : Cardinality(SameIdentity(dOut, dIn[i])) = 1

\* C7 as stated: of the entries of one identity exactly one survives, and none
\* of them has a longer raw key.
C7_LongerKeySurvives ==
    dDone =>
        /\ OnePerIdentity
        /\ \A s \in Range(dOut) :
             \A i \in SameIdentity(dIn, s) : KeyLen(s) >= KeyLen(dIn[i])

\* C7 as amended: of the entries of one identity exactly one survives, and it
\* is one with the shortest raw key: of those, the last in the group.
C7_ShorterKeySurvives ==
    dDone =>
        /\ OnePerIdentity
        /\ \A j \in 1..Len(dIn) :
             dIn[j] \in Range(dOut) =>
                \A i \in SameIdentity(dIn, dIn[j]) :
                    \/ KeyLen(dIn[j]) < KeyLen(dIn[i])
                    \/ KeyLen(dIn[j]) = KeyLen(dIn[i]) /\ i <= j

\* the .installer.tar.gz and the .tar.gz entry of one build: the shorter is kept
C7_Witness ==
    /\ dDone
    /\ dIn = <<KTgz, KInstTgz>>
    /\ dOut = <<KTgz>>

\* C8: of the .exe and the .zip entry of one build only the .zip entry
\* survives, whichever comes first.
C8_ZipSurvives ==
    (dDone /\ Range(dIn) = {KExe, KZip}) => dOut = <<KZip>>

\* entries of one directory are next to each other
Contiguous(s) ==
    \A i, j, k \in 1..Len(s) :
        (i < j /\ j < k /\ Dirname(s[i]) = Dirname(s[k]))
            => Dirname(s[j]) = Dirname(s[i])

\* C9: the groups yielded so far, followed by the group being collected, are
\* the entries read so far, in order; no group is empty or mixes directories;
\* on an input whose directories are contiguous no two groups are of one
\* directory; at the end of the input everything has been yielded.
C9_Grouping ==
    LET pending == IF gDone THEN <<>> ELSE result
        parts == IF pending = <<>> THEN groups ELSE Append(groups, pending)
    IN  /\ Flatten(groups) \o pending = SubSeq(gInput, 1, gPos)
        /\ \A g \in Range(groups) :
             g # <<>> /\ \A i \in 1..Len(g) : Dirname(g[i]) = Dirname(g[1])
        /\ Contiguous(gInput) =>
             \A i, j \in 1..Len(parts) :
                i # j => Dirname(parts[i][1]) # Dirname(parts[j][1])
        /\ gDone => Flatten(groups) = gInput

\* three directories, the last group flushed at the end of the input
C9_Witness ==
    /\ gDone
    /\ Contiguous(gInput)
    /\ Len(gInput) = 4
    /\ Len(groups) = 3
    /\ Len(groups[1]) = 2

\* C10: no listing is asked for a product whose scan has completed.
C10_ScanIsIdempotent == hist.relisted = {}

\* the elements of s at the positions of S, in the order of s
RECURSIVE Pick(_, _)
Pick(s, S) ==
    IF s = <<>> THEN <<>>
    ELSE Pick(SubSeq(s, 1, Len(s) - 1), S)
         \o (IF Len(s) \in S THEN <<s[Len(s)]>> ELSE <<>>)

\* C11: whatever the order in which the fetches of a batch completed, what the
\* batch emits is, in the batch's order, some of its records, each merged with
\* the metadata its own fetch resolved; and it is emitted when no fetch of
\* another batch has started.
C11_OrderedAndPaired ==
    [][(pc = "fetch" /\ pc' \in {"read", "save"}) =>
          /\ \E S \in SUBSET (1..Len(batch)) :
                output' = Pick([i \in 1..Len(batch) |->
                                  [url |-> UrlOf(batch[i]), build |-> tasks[i].res]], S)
          /\ tasks' = <<>> /\ batch' = <<>>]_vars

\* the first batch of a run without a cache file emitted a nightly and a
\* release record, both fetched in this batch, each with its own metadata
C11_Witness ==
    /\ hist.batches = 1 /\ ~cacheFile.exists
    /\ Len(output) = 2
    /\ output[1].url.channel = "nightly"
    /\ output[2].url.channel = "release" /\ output[2].url.version = "1.0"
    /\ output[1].build # None /\ output[1].build.src = Localize(output[1].url)
    /\ output[2].build # None /\ output[2].build.src.version = output[2].url.version
    /\ output[2].build.src # output[1].build.src

\* C12: under the strict policy a batch emits exactly its merged records that
\* pass check_record; under the lenient policy it emits every merged record,
\* those that fail the check included.
C12_ValidationPolicy ==
    [][(pc = "fetch" /\ pc' \in {"read", "save"}) =>
          LET merged == [i \in 1..Len(batch) |-> merge_metadata(batch[i], tasks[i].res)]
              passing == {i \in 1..Len(batch) : ~CheckFails(merged[i])}
          IN  IF skip_incomplete
              THEN output' = Pick(merged, passing)
              ELSE output' = merged]_vars

\* strict policy: of the two records of the first batch the one without
\* metadata was dropped and the other emitted
C12_Witness ==
    /\ skip_incomplete
    /\ hist.batches = 1 /\ hist.handed = 2
    /\ Len(output) = 1 /\ ~CheckFails(output[1])

\* the fetch_metadata calls of the batch that have not returned
InFlight == {i \in 1..Len(tasks) : tasks[i].st \notin {"done", "raised"}}

\* C13: the batch holds at most NB_PARALLEL_REQUESTS records, at most that
\* many metadata resolutions are in flight, a scan has at most that many
\* listings outstanding and runs while no resolution is in flight; a batch
\* starts only when the batch before it has completed and been emitted.
C13_BoundedConcurrency ==
    [][/\ Len(batch') <= NB_PARALLEL_REQUESTS
       /\ Len(tasks') <= NB_PARALLEL_REQUESTS
       /\ Cardinality(DOMAIN scan'.out) <= NB_PARALLEL_REQUESTS
       /\ pc' = "scan" => tasks' = <<>>
       /\ pc' \in {"read", "save", "done"} => tasks' = <<>>
       /\ hist'.batches # hist.batches =>
             /\ tasks = <<>>
             /\ hist.emitted <= hist.handed
             /\ ~skip_incomplete => hist.emitted = hist.handed]_vars

\* the scan listed three versions, NB_PARALLEL_REQUESTS of them at once, a
\* full batch was fetched and emitted, and the batch after it is in flight
C13_Witness ==
    /\ Cardinality(DOMAIN folderOf) = NB_PARALLEL_REQUESTS + 1
    /\ hist.batches = 2
    /\ hist.handed = NB_PARALLEL_REQUESTS + Len(batch)
    /\ hist.emitted = NB_PARALLEL_REQUESTS
    /\ InFlight # {}

\* the first GET of the script that does not time out
FirstAnswer == CHOOSE p \in 1..(MaxScript + 1) :
                  /\ p <= MaxScript => fScript[p] # "timeout"
                  /\ \A q \in 1..(p - 1) : fScript[q] = "timeout"

\* C14: a call whose k-th GET is the first not to time out (k at most
\* NB_RETRY_REQUEST) ends with that GET: it has issued exactly k requests, and
\* returns the document or raises that GET's error, a client or parse error at
\* the first GET included.
C14_RetryOnlyOnTimeout ==
    LET k == FirstAnswer
    IN  (fResult \notin {"idle", "pending"} /\ k <= NB_RETRY_REQUEST) =>
            /\ fGets = k
            /\ fResult = IF Raises(fScript[k]) = "none" THEN "json"
                         ELSE Raises(fScript[k])
            /\ fResult # "TimeoutError"

\* the first GET met a client error: one request, and the error is raised
C14_Witness ==
    /\ fScript[1] = "client"
    /\ fResult = "ClientError"
    /\ fGets = 1

\* the release records of the batch whose (product, version) the index lacks
Unindexed ==
    {i \in 1..Len(tasks) :
        /\ Strategy(batch[i]) = "release"
        /\ ~Has(folderOf, <<batch[i].product, batch[i].version>>)}

\* C15: a release record whose (product, version) the index lacks resolves to
\* absent without a request, and the release cache holds nothing for it: every
\* key of the cache is the URL of an indexed (product, version) and its folder.
C15_NoIndexNoRequest ==
    /\ \A i \in Unindexed : Absent(tasks[i]) /\ tasks[i].gets = 0
    /\ \A k \in DOMAIN releaseCache :
          /\ Has(folderOf, <<k.product, k.version>>)
          /\ folderOf[<<k.product, k.version>>] = k.folder

\* the scan indexed version 2.0 of the product only; the record of version 1.0
\* resolved to absent and the cache is as it was
C15_Witness ==
    /\ pc = "fetch"
    /\ Has(folderOf, <<"firefox", "2.0">>)
    /\ Unindexed # {}
    /\ \A i \in Unindexed : Absent(tasks[i]) /\ tasks[i].gets = 0
    /\ releaseCache = EmptyMap

\* C16: a release resolution whose folder listing failed is reported: a
\* warning is logged for the record, as it is for a listing that succeeded
\* without a metadata file, which is also cached as absent.
C16_ListingFailureReported ==
    \A i \in 1..Len(tasks) :
        /\ tasks[i].listed = "failed" => tasks[i].warned
        /\ (tasks[i].listed = "ok" /\ Absent(tasks[i]) /\ Has(releaseCache, tasks[i].key)
              /\ releaseCache[tasks[i].key] = None) => tasks[i].warned

\* C17: the buildnumber of a resolved release metadata is the number N of the
\* latest build folder build<N>/ it was read from, of one digit or more.
C17_BuildNumberIsFolderNumber ==
    \A i \in 1..Len(tasks) :
        (tasks[i].st = "done" /\ tasks[i].res # None /\ Strategy(batch[i]) = "release")
            => tasks[i].res.buildnumber = folderOf[<<batch[i].product, batch[i].version>>]

\* every positive entry of the map c is an entry of d, with the same value
KeepsPositive(c, d) ==
    \A k \in DOMAIN c : c[k] # None => (Has(d, k) /\ d[k] = c[k])

\* C18: no step replaces a positive entry of one of the three caches, by the
\* absent marker or by another value, or removes it.
C18_PositiveEntriesStable ==
    [][/\ KeepsPositive(nightlyCache, nightlyCache')
       /\ KeepsPositive(rcCache, rcCache')
       /\ KeepsPositive(releaseCache, releaseCache')]_vars

\* C19: the index holds what scan_candidates wrote and nothing else. A scan
\* creates a product's entry when it assigns the product's first version, so
\* every product of the index has a version; and no step outside a scan
\* changes the products or the versions of the index.
C19_OnlyScanWritesIndex ==
    [][/\ \A p \in indexed' : \E k \in DOMAIN folderOf' : k[1] = p
       /\ (indexed' # indexed \/ folderOf' # folderOf) => pc = "scan"]_vars

\* the cache file f, loaded, is the three maps
HoldsTheMaps(f, rc, release, nightly) ==
    /\ f.exists
    /\ Load(f.rc) = rc /\ Load(f.release) = release /\ Load(f.nightly) = nightly

\* C20: the cache file changes only in the step that ends the run cleanly,
\* after the last batch was emitted; it then holds the three maps as they are,
\* absent markers and the entries loaded at the start included. A run that
\* aborts, the failed save included, leaves the file as it was, and the count
\* of emitted records never decreases.
C20_CacheFileAtCleanEnd ==
    [][/\ cacheFile' # cacheFile =>
             /\ pc = "save" /\ pc' = "done"
             /\ final /\ tasks = <<>> /\ batch = <<>>
       /\ pc' = "done" =>
             /\ HoldsTheMaps(cacheFile', rcCache', releaseCache', nightlyCache')
             /\ DOMAIN cacheFile.rc \subseteq DOMAIN cacheFile'.rc
             /\ DOMAIN cacheFile.release \subseteq DOMAIN cacheFile'.release
             /\ DOMAIN cacheFile.nightly \subseteq DOMAIN cacheFile'.nightly
       /\ pc' = "aborted" => cacheFile' = cacheFile
       /\ hist'.emitted >= hist.emitted]_vars

\* a clean end: the file holds the absent marker loaded from the file of the
\* run before, an absent marker learned in this run and a metadata found
C20_Witness ==
    /\ pc = "done" /\ hist.emitted > 0
    /\ HoldsTheMaps(cacheFile, rcCache, releaseCache, nightlyCache)
    /\ Has(nightlyCache, PriorNightlyUrl) /\ nightlyCache[PriorNightlyUrl] = None
    /\ \E k \in DOMAIN releaseCache : releaseCache[k] = None
    /\ \E k \in DOMAIN rcCache : rcCache[k] # None

====
